---- MODULE Spec2Model ----
(***************************************************************************)
(* Model of the fasthog scanning engine (fasthog.go): the directory walk,  *)
(* the semaphore-bounded worker pool, the three-stage line protocol and    *)
(* the mutex-protected result aggregation of scanDirectory.                *)
(*                                                                         *)
(* Strings are sequences of one-character strings.  Lines of scanned files *)
(* are kept run-length encoded (a sequence of [ch, n] runs, adjacent runs  *)
(* having different characters), so that a line of bufio's maximum token   *)
(* size can be written down.                                               *)
(***************************************************************************)
EXTENDS Integers, Sequences, FiniteSets, TLC

(***************************************************************************)
(* Bounds of the model.                                                    *)
(***************************************************************************)
\* runtime.NumCPU() ranges over 1..MaxCPU
MaxCPU == 2

\* hasExtension is called on paths of at most MaxPathLen characters
MaxPathLen == 3

\* with at most MaxExts extensions
MaxExts == 2

\* of at most MaxExtLen characters each
MaxExtLen == 2

\* the most pattern sources one call of loadRegexes is given
MaxSources == 2

\* the most entries of the list mergeExcludeDirs is given
MaxExtra == 3

\* the widest window, the longest current-file path and the most matches
\* the progress display is given
MaxWidth == 30
MaxFileLen == 4
MaxMatches == 10

(***************************************************************************)
(* Characters and strings.                                                 *)
(***************************************************************************)
\* the characters used by the model, in byte order
Alphabet ==
    << " ", ".", "/", "B", "P", "Y", "_",
       "a", "b", "c", "d", "e", "g", "h", "i", "l", "m", "n", "o", "p",
       "r", "s", "t", "u", "v", "x", "y" >>

CharRank(c) == CHOOSE k \in 1..Len(Alphabet) : Alphabet[k] = c

UpperCase == << "B", "P", "Y" >>
LowerCase == << "b", "p", "y" >>

\* unicode.ToLower on one character
LowerChar(c) ==
    IF \E k \in 1..Len(UpperCase) : UpperCase[k] = c
    THEN LowerCase[CHOOSE k \in 1..Len(UpperCase) : UpperCase[k] = c]
    ELSE c

\* strings.ToLower
ToLower(s) == [k \in 1..Len(s) |-> LowerChar(s[k])]

\* strings.HasSuffix
HasSuffix(s, suffix) ==
    /\ Len(suffix) <= Len(s)
    /\ SubSeq(s, Len(s) - Len(suffix) + 1, Len(s)) = suffix

\* byte-wise s < t, the order fs.ReadDir sorts directory entries by
RECURSIVE StrLess(_, _)
StrLess(s, t) ==
    IF t = << >> THEN FALSE
    ELSE IF s = << >> THEN TRUE
    ELSE IF Head(s) = Head(t) THEN StrLess(Tail(s), Tail(t))
    ELSE CharRank(Head(s)) < CharRank(Head(t))

\* strings.Split(s, "/")
RECURSIVE SplitSlash(_)
SplitSlash(s) ==
    IF \A k \in 1..Len(s) : s[k] # "/" THEN << s >>
    ELSE LET k == CHOOSE j \in 1..Len(s) :
                      s[j] = "/" /\ \A h \in 1..(j - 1) : s[h] # "/"
         IN  << SubSeq(s, 1, k - 1) >> \o SplitSlash(SubSeq(s, k + 1, Len(s)))

\* the slash-separated path WalkDir hands to its callback; the root is "."
RECURSIVE JoinSlash(_)
JoinSlash(segs) ==
    IF segs = << >> THEN << "." >>
    ELSE IF Len(segs) = 1 THEN segs[1]
    ELSE segs[1] \o << "/" >> \o JoinSlash(Tail(segs))

\* slices.Contains
Contains(seq, x) == \E k \in 1..Len(seq) : seq[k] = x

(***************************************************************************)
(* Lines, run-length encoded.                                              *)
(***************************************************************************)
\* len(line)
RECURSIVE LineLen(_)
LineLen(line) ==
    IF line = << >> THEN 0 ELSE Head(line).n + LineLen(Tail(line))

IsSpace(c) == c = " "

RECURSIVE TrimLeft(_)
TrimLeft(line) ==
    IF line # << >> /\ IsSpace(Head(line).ch) THEN TrimLeft(Tail(line)) ELSE line

RECURSIVE TrimRight(_)
TrimRight(line) ==
    IF line # << >> /\ IsSpace(line[Len(line)].ch)
    THEN TrimRight(SubSeq(line, 1, Len(line) - 1))
    ELSE line

\* strings.TrimSpace
TrimSpace(line) == TrimRight(TrimLeft(line))

(***************************************************************************)
(* Compiled regular expressions.  A regexp is the ordered alternation of   *)
(* its alternatives; an alternative is c+ for a character c                *)
(* ([kind |-> "plus", ch |-> c]), the single character c                   *)
(* ([kind |-> "lit", ch |-> c]) or the empty expression                    *)
(* ([kind |-> "empty"]), which matches the empty string everywhere.        *)
(* The regexp with no alternative at all matches nothing.                  *)
(***************************************************************************)
AltMatchesAt(alt, line, k) ==
    \/ alt.kind = "empty"
    \/ alt.kind \in {"plus", "lit"} /\ k <= Len(line) /\ line[k].ch = alt.ch

\* the runs at which some alternative matches; position Len(line)+1 is the
\* end of the line, where only the empty expression matches
MatchRuns(re, line) ==
    {k \in 1..(Len(line) + 1) :
        \E a \in 1..Len(re) : AltMatchesAt(re[a], line, k)}

\* (*regexp.Regexp).MatchString
MatchString(re, line) == MatchRuns(re, line) # {}

\* (*regexp.Regexp).FindString: the leftmost match, the first alternative
\* winning among those that match there; "" when nothing matches
FindString(re, line) ==
    IF MatchRuns(re, line) = {} THEN << >>
    ELSE LET k == CHOOSE j \in MatchRuns(re, line) :
                      \A h \in MatchRuns(re, line) : j <= h
             a == CHOOSE b \in 1..Len(re) :
                      /\ AltMatchesAt(re[b], line, k)
                      /\ \A c \in 1..(b - 1) : ~AltMatchesAt(re[c], line, k)
         IN  IF re[a].kind = "plus" THEN << line[k] >>
             ELSE IF re[a].kind = "lit" THEN << [ch |-> re[a].ch, n |-> 1] >>
             ELSE << >>

(***************************************************************************)
(* Program constants.                                                      *)
(***************************************************************************)
\* lines of this length or less are skipped
ShortLineLimit == 8

\* bufio.MaxScanTokenSize: the Scanner built by bufio.NewScanner gives up
\* with ErrTooLong on a line that does not fit its 64 KiB buffer
MaxScanTokenSize == 65536

defaultExcludeDirs ==
    << << ".", "g", "i", "t" >>,
       << ".", "g", "i", "t", "h", "u", "b" >>,
       << "n", "o", "d", "e", "_", "m", "o", "d", "u", "l", "e", "s" >>,
       << "v", "e", "n", "d", "o", "r" >>,
       << ".", "i", "d", "e", "a" >>,
       << ".", "v", "s", "c", "o", "d", "e" >> >>

\* the entries of seq that do not occur in seen or earlier in seq, in order
RECURSIVE AppendNew(_, _)
AppendNew(seen, seq) ==
    IF seq = << >> THEN seen
    ELSE AppendNew(IF Contains(seen, Head(seq)) THEN seen
                   ELSE Append(seen, Head(seq)),
                   Tail(seq))

\* the extra entries appended to the defaults as they come
mergeExcludeDirsAppending(extra) == defaultExcludeDirs \o extra

\* the array the slice mergeExcludeDirs returns points into: out, made at
\* line 154, or merged, grown by append from nil at lines 160-174; never
\* the array of defaultExcludeDirs
MergedArray(extra) == IF Len(extra) = 0 THEN "out" ELSE "merged"

mergeExcludeDirs(extra) ==
    IF Len(extra) = 0 THEN defaultExcludeDirs
    ELSE AppendNew(AppendNew(<< >>, defaultExcludeDirs), extra)

hasExtension(path, extensions) ==
    \E k \in 1..Len(extensions) : HasSuffix(ToLower(path), extensions[k])

(***************************************************************************)
(* The file system under the scan root.  An entry has the sequence of      *)
(* names leading to it, its type, and for what can be opened the lines it  *)
(* holds and the failures of the environment:                              *)
(*   readDirErr  reading the directory fails (no child is listed)          *)
(*   openErr     root.Open fails                                           *)
(*   readErrAt   k > 0: the read that would deliver line k fails           *)
(*   closeErr    f.Close fails                                             *)
(***************************************************************************)
File(path, content) ==
    [path |-> path, kind |-> "file", readDirErr |-> FALSE, content |-> content,
     openErr |-> FALSE, readErrAt |-> 0, closeErr |-> FALSE]

Dir(path) ==
    [path |-> path, kind |-> "dir", readDirErr |-> FALSE, content |-> << >>,
     openErr |-> FALSE, readErrAt |-> 0, closeErr |-> FALSE]

\* a symbolic link, which root.Open follows to the lines of its target
Link(path, content) == [File(path, content) EXCEPT !.kind = "symlink"]

\* d.IsDir()
IsDir(e) == e.kind = "dir"

Children(entries, dirPath) ==
    {e \in entries : /\ Len(e.path) = Len(dirPath) + 1
                     /\ SubSeq(e.path, 1, Len(dirPath)) = dirPath}

EntryName(e) == e.path[Len(e.path)]

\* fs.ReadDir: the entries of a directory sorted by file name
RECURSIVE SortByName(_)
SortByName(S) ==
    IF S = {} THEN << >>
    ELSE LET first == CHOOSE e \in S :
                          \A o \in S \ {e} : StrLess(EntryName(e), EntryName(o))
         IN  << first >> \o SortByName(S \ {first})

\* fs.WalkDir below one entry: the calls of the walk function, in order.
\* A directory is reported once, a second time with the error when it
\* cannot be read, and then its listed children are walked.
RECURSIVE WalkEntry(_, _)
WalkEntry(entries, e) ==
    LET call(err) == [path |-> JoinSlash(e.path), isDir |-> IsDir(e), err |-> err]
        RECURSIVE WalkAll(_)
        WalkAll(seq) ==
            IF seq = << >> THEN << >>
            ELSE WalkEntry(entries, Head(seq)) \o WalkAll(Tail(seq))
    IN  IF ~IsDir(e) THEN << call(FALSE) >>
        ELSE IF e.readDirErr THEN << call(FALSE), call(TRUE) >>
        ELSE << call(FALSE) >> \o WalkAll(SortByName(Children(entries, e.path)))

\* fs.WalkDir(root, "."): a root that cannot be stat'ed is reported with
\* the error and nothing else is walked
WalkDir(tree) ==
    IF tree.rootErr THEN << [path |-> << "." >>, isDir |-> FALSE, err |-> TRUE] >>
    ELSE WalkEntry(tree.entries, Dir(<< >>))

(***************************************************************************)
(* Inputs: lines, pattern sets and directory trees the scans are run on.   *)
(***************************************************************************)
Run(c, n) == [ch |-> c, n |-> n]

Plus(c) == [kind |-> "plus", ch |-> c]

EmptyExpr == [kind |-> "empty"]

\* "pppppppppp"
SecretLine == << Run("p", 10) >>
\* "pppppppp", of length 8
ShortSecret == << Run("p", ShortLineLimit) >>
\* "pppppppppx"
VetoedLine == << Run("p", 9), Run("x", 1) >>
\* "   pppp  ", of length 9
PaddedLine == << Run(" ", 3), Run("p", 4), Run(" ", 2) >>
\* "aaaaaaaaaaaa"
PlainLine == << Run("a", 12) >>
\* a line of 65536 times "a"
HugeLine == << Run("a", MaxScanTokenSize) >>

\* the three compiled stages handed to the scan
PatternSets ==
    { \* p+ screened, p+ extracted, x+ vetoed
      [fast |-> << Plus("p") >>, slow |-> << Plus("p") >>, exclude |-> << Plus("x") >>],
      \* (a+)|(x+) screened, p+ extracted, nothing vetoed
      [fast |-> << Plus("a"), Plus("x") >>, slow |-> << Plus("p") >>, exclude |-> << >>],
      \* everything screened, ()|(x+) extracts "" at the start of any line
      [fast |-> << EmptyExpr >>, slow |-> << EmptyExpr, Plus("x") >>, exclude |-> << >>],
      \* p+ screened, p+ extracted, runs of spaces vetoed
      [fast |-> << Plus("p") >>, slow |-> << Plus("p") >>, exclude |-> << Plus(" ") >>] }

DotPy == << ".", "p", "y" >>
APy == << "a", ".", "p", "y" >>
BPy == << "b", ".", "p", "y" >>
CPy == << "c", ".", "p", "y" >>
DPy == << "d", ".", "p", "y" >>
UpperPy == << "B", ".", "P", "Y" >>
ETxt == << "e", ".", "t", "x", "t" >>
DotGit == << ".", "g", "i", "t" >>
SrcDir == << "s", "r", "c" >>
LibDir == << "l", "i", "b" >>
XDir == << "x" >>

\* three candidates holding every kind of line
TreeLines ==
    [rootErr |-> FALSE,
     entries |-> { File(<< APy >>, << SecretLine, ShortSecret >>),
                   File(<< BPy >>, << VetoedLine, PaddedLine >>),
                   File(<< CPy >>, << PlainLine, SecretLine >>) }]

\* accepted files below excluded directories, next to candidates
TreeDirs ==
    [rootErr |-> FALSE,
     entries |-> { Dir(<< DotGit >>), File(<< DotGit, CPy >>, << SecretLine >>),
                   Dir(<< DotGit, SrcDir >>),
                   File(<< DotGit, SrcDir, APy >>, << SecretLine >>),
                   Dir(<< XDir >>), Dir(<< XDir, DotGit >>),
                   File(<< XDir, DotGit, DPy >>, << SecretLine >>),
                   Dir(<< LibDir >>), File(<< LibDir, APy >>, << SecretLine >>),
                   Dir(<< SrcDir >>), File(<< SrcDir, BPy >>, << VetoedLine >>),
                   File(<< ETxt >>, << SecretLine >>),
                   File(<< UpperPy >>, << SecretLine, SecretLine >>) }]

\* reads that stop before the end of the file
TreeReads ==
    [rootErr |-> FALSE,
     entries |-> { File(<< APy >>, << HugeLine, SecretLine >>),
                   [File(<< BPy >>, << SecretLine, VetoedLine, SecretLine >>)
                       EXCEPT !.readErrAt = 2] }]

\* a file that cannot be opened and one that cannot be closed
TreePanics ==
    [rootErr |-> FALSE,
     entries |-> { [File(<< APy >>, << SecretLine >>) EXCEPT !.closeErr = TRUE],
                   [File(<< BPy >>, << SecretLine >>) EXCEPT !.openErr = TRUE],
                   File(<< CPy >>, << VetoedLine, SecretLine >>) }]

\* a symbolic link with an accepted name, and a directory that cannot be
\* read ahead of a directory that can
TreeOdd ==
    [rootErr |-> FALSE,
     entries |-> { File(<< APy >>, << SecretLine >>),
                   Link(<< DPy >>, << SecretLine >>),
                   [Dir(<< SrcDir >>) EXCEPT !.readDirErr = TRUE],
                   File(<< SrcDir, BPy >>, << SecretLine >>),
                   Dir(<< XDir >>), File(<< XDir, CPy >>, << VetoedLine >>) }]

\* candidates with two, one, one and no secret
TreeCounts ==
    [rootErr |-> FALSE,
     entries |-> { File(<< APy >>, << SecretLine >>),
                   File(<< BPy >>, << SecretLine, SecretLine >>),
                   File(<< CPy >>, << PlainLine >>),
                   File(<< DPy >>, << SecretLine >>),
                   File(<< ETxt >>, << SecretLine >>) }]

\* a root that cannot be stat'ed
TreeMissing ==
    [rootErr |-> TRUE, entries |-> { File(<< APy >>, << SecretLine >>) }]

\* the directory, extension list and exclude list of a scan
Scenarios ==
    { [Directory |-> TreeLines, Extensions |-> << DotPy >>, ExcludeDirs |-> << >>],
      [Directory |-> TreeDirs, Extensions |-> << DotPy >>, ExcludeDirs |-> << LibDir >>],
      [Directory |-> TreeReads, Extensions |-> << DotPy >>, ExcludeDirs |-> << >>],
      [Directory |-> TreePanics, Extensions |-> << DotPy >>, ExcludeDirs |-> << >>],
      [Directory |-> TreeOdd, Extensions |-> << DotPy >>, ExcludeDirs |-> << >>],
      [Directory |-> TreeMissing, Extensions |-> << DotPy >>, ExcludeDirs |-> << >>] }

(***************************************************************************)
(* State of one call of scanDirectory.                                     *)
(***************************************************************************)
VARIABLES
    opts,           \* scanOptions; Directory is the tree os.DirFS serves
    numCPU,         \* runtime.NumCPU(), the capacity of semaphore
    pc,             \* position of the goroutine running scanDirectory
    walk,           \* calls of the walk function still to come
    filenames,      \* files collected by the walk
    result,         \* scanResult: Matches, MatchFiles, Filenames
    mu,             \* 0 when unlocked, else the worker holding the mutex
    semaphore,      \* number of elements in the semaphore channel
    wg,             \* counter of the WaitGroup
    idx,            \* 1 + loop variable i of the dispatch loop
    workers,        \* the goroutines started, in dispatch order
    progressCalls,  \* invocations of opts.OnCurrentFile, in order
    matchCalls,     \* invocations of opts.OnMatch, each with its count
    exited,         \* the process has died of a panic
    run,            \* the runner calling scanDirectory, when there is one
    called          \* a function called on its own: name, arguments, result

vars ==
    << called, run, opts, numCPU, pc, walk, filenames, result, mu, semaphore, wg, idx,
       workers, progressCalls, matchCalls, exited >>

root == opts.Directory

\* scanDirectory called on its own, without runner
NoRun == [mode |-> "none"]

\* no function called on its own
NoCall == [fn |-> "none"]

\* the entry root.Open(path) resolves to
Lookup(path) == CHOOSE e \in root.entries : JoinSlash(e.path) = path

Init ==
    /\ \E sc \in Scenarios, ps \in PatternSets, cb \in BOOLEAN :
          opts = [Directory |-> sc.Directory,
                  Extensions |-> sc.Extensions,
                  ExcludeDirs |-> sc.ExcludeDirs,
                  ExcludePatterns |-> ps.exclude,
                  FastPatterns |-> ps.fast,
                  SlowPatterns |-> ps.slow,
                  OnCurrentFile |-> cb,
                  OnMatch |-> cb]
    /\ run = NoRun
    /\ called = NoCall
    /\ numCPU \in 1..MaxCPU
    /\ pc = "walk"
    /\ walk = WalkDir(root)
    /\ filenames = << >>
    /\ result = [Matches |-> << >>, MatchFiles |-> << >>, Filenames |-> << >>]
    /\ mu = 0
    /\ semaphore = 0
    /\ wg = 0
    /\ idx = 1
    /\ workers = << >>
    /\ progressCalls = << >>
    /\ matchCalls = << >>
    /\ exited = FALSE

(***************************************************************************)
(* The walk (fasthog.go 190-211).                                          *)
(***************************************************************************)
\* only the directory holding the file compared with the excluded names
ExcludedParentOnly(path, excludeDirs) ==
    LET parts == SplitSlash(path)
    IN  /\ Len(parts) > 1
        /\ \E k \in 1..Len(excludeDirs) : parts[Len(parts) - 1] = excludeDirs[k]

\* some segment of the path is an excluded name
Excluded(path, excludeDirs) ==
    LET parts == SplitSlash(path)
    IN  \E k \in 1..Len(excludeDirs) : Contains(parts, excludeDirs[k])

\* the walk function: the list of files after one call
WalkFunc(files, call, extensions, excludeDirs) ==
    IF call.err \/ call.isDir THEN files
    ELSE IF ~hasExtension(call.path, extensions) THEN files
    ELSE IF Excluded(call.path, excludeDirs) THEN files
    ELSE Append(files, call.path)

\* a walk function handing the error it is given back to WalkDir
WalkReturnError(c) == IF c.err THEN "err" ELSE "nil"

\* what the walk function returns: nil on every path
WalkReturn(c) == "nil"

\* one call of the walk function; fs.WalkDir stops at a non-nil return
WalkStep ==
    /\ pc = "walk" /\ ~exited
    /\ walk # << >>
    /\ filenames' = WalkFunc(filenames, Head(walk), opts.Extensions,
                             mergeExcludeDirs(opts.ExcludeDirs))
    /\ walk' = IF WalkReturn(Head(walk)) = "nil" THEN Tail(walk) ELSE << >>
    /\ UNCHANGED << called, run, opts, numCPU, pc, result, mu, semaphore, wg, idx, workers,
                    progressCalls, matchCalls, exited >>

\* the dispatch started before fs.WalkDir has returned
WalkDoneEarly ==
    /\ pc = "walk" /\ ~exited
    /\ result' = [result EXCEPT !.Filenames = filenames]
    /\ pc' = "loop"
    /\ UNCHANGED << called, run, opts, numCPU, walk, filenames, mu, semaphore, wg, idx,
                    workers, progressCalls, matchCalls, exited >>

\* fs.WalkDir has returned: result.Filenames = filenames
WalkDone ==
    /\ pc = "walk" /\ ~exited
    /\ walk = << >>
    /\ result' = [result EXCEPT !.Filenames = filenames]
    /\ pc' = "loop"
    /\ UNCHANGED << called, run, opts, numCPU, walk, filenames, mu, semaphore, wg, idx,
                    workers, progressCalls, matchCalls, exited >>

(***************************************************************************)
(* The dispatch loop (fasthog.go 219-227, 269-270).                        *)
(***************************************************************************)
\* the loop is over: go on to wg.Wait()
LoopExit ==
    /\ pc = "loop" /\ ~exited
    /\ idx > Len(filenames)
    /\ pc' = "wait"
    /\ UNCHANGED << called, run, opts, numCPU, walk, filenames, result, mu, semaphore, wg,
                    idx, workers, progressCalls, matchCalls, exited >>

\* a send that never blocks
CanSendUnbounded(sem) == TRUE

\* the send blocks while the channel is full
CanSend(sem) == sem < numCPU

\* semaphore <- struct{}{}
Acquire ==
    /\ pc = "loop" /\ ~exited
    /\ idx <= Len(filenames)
    /\ CanSend(semaphore)
    /\ semaphore' = semaphore + 1
    /\ pc' = "add"
    /\ UNCHANGED << called, run, opts, numCPU, walk, filenames, result, mu, wg, idx,
                    workers, progressCalls, matchCalls, exited >>

\* the callback given a one-based index
ProgressCallOneBased(files, k) ==
    [path |-> files[k], index |-> k, total |-> Len(files)]

\* the arguments of opts.OnCurrentFile(path, i, len(filenames))
ProgressCall(files, k) ==
    [path |-> files[k], index |-> k - 1, total |-> Len(files)]

\* wg.Add(1) and the progress callback
Notify ==
    /\ pc = "add" /\ ~exited
    /\ wg' = wg + 1
    /\ progressCalls' = IF opts.OnCurrentFile
                        THEN Append(progressCalls, ProgressCall(filenames, idx))
                        ELSE progressCalls
    /\ pc' = "go"
    /\ UNCHANGED << called, run, opts, numCPU, walk, filenames, result, mu, semaphore, idx,
                    workers, matchCalls, exited >>

\* a goroutine about to open path
NewWorker(path) ==
    [pc |-> "open", path |-> path, lineNo |-> 0, match |-> << >>,
     evals |-> << >>, scanErr |-> "nil", panicking |-> FALSE]

\* go func(path string) {...}(path), and the next iteration
Spawn ==
    /\ pc = "go" /\ ~exited
    /\ workers' = Append(workers, NewWorker(filenames[idx]))
    /\ idx' = idx + 1
    /\ pc' = "loop"
    /\ UNCHANGED << called, run, opts, numCPU, walk, filenames, result, mu, semaphore, wg,
                    progressCalls, matchCalls, exited >>

\* a wait that does not block
WaitDoneAtOnce(counter) == TRUE

\* wg.Wait() blocks until the counter is zero
WaitDone(counter) == counter = 0

\* wg.Wait(); return result
Return ==
    /\ pc = "wait" /\ ~exited
    /\ WaitDone(wg)
    /\ pc' = "returned"
    /\ UNCHANGED << called, run, opts, numCPU, walk, filenames, result, mu, semaphore, wg,
                    idx, workers, progressCalls, matchCalls, exited >>

(***************************************************************************)
(* A worker (fasthog.go 227-266).  Its deferred calls run in the order     *)
(* f.Close, <-semaphore, wg.Done; a panic runs the deferred calls that are *)
(* registered and then ends the process.                                   *)
(***************************************************************************)
\* f, err := root.Open(path)
Open(w) ==
    /\ ~exited
    /\ workers[w].pc = "open"
    /\ workers' = [workers EXCEPT
                      ![w].pc = IF Lookup(workers[w].path).openErr
                                THEN "release" ELSE "scan",
                      ![w].panicking = Lookup(workers[w].path).openErr]
    /\ UNCHANGED << called, run, opts, numCPU, pc, walk, filenames, result, mu, semaphore,
                    wg, idx, progressCalls, matchCalls, exited >>

\* scanner.Scan() after lineNo lines: the next line, or the reason to stop
ScanNext(e, lineNo) ==
    LET k == lineNo + 1
    IN  IF k > Len(e.content) THEN [ok |-> FALSE, err |-> "nil"]
        ELSE IF e.readErrAt = k THEN [ok |-> FALSE, err |-> "read"]
        ELSE IF LineLen(e.content[k]) >= MaxScanTokenSize
             THEN [ok |-> FALSE, err |-> "tooLong"]
        ELSE [ok |-> TRUE, err |-> "nil", line |-> e.content[k]]

\* the strict stage used as a test only, its match not looked at
RecordedAnyStrictMatch(line, fast, slow, exclude) ==
    /\ ~(LineLen(line) <= ShortLineLimit)
    /\ MatchString(fast, line)
    /\ MatchString(slow, line)
    /\ ~MatchString(exclude, line)

\* lines of length 8 let through
RecordedFromEight(line, fast, slow, exclude) ==
    /\ ~(LineLen(line) < ShortLineLimit)
    /\ MatchString(fast, line)
    /\ FindString(slow, line) # << >>
    /\ ~MatchString(exclude, line)

\* the veto tested against the trimmed line
RecordedVetoTrimmed(line, fast, slow, exclude) ==
    /\ ~(LineLen(line) <= ShortLineLimit)
    /\ MatchString(fast, line)
    /\ FindString(slow, line) # << >>
    /\ ~MatchString(exclude, TrimSpace(line))

\* the conditions of lines 246-250 under which a line is recorded
Recorded(line, fast, slow, exclude) ==
    /\ ~(LineLen(line) <= ShortLineLimit)
    /\ MatchString(fast, line)
    /\ FindString(slow, line) # << >>
    /\ ~MatchString(exclude, line)

\* every stage evaluated on every line longer than the limit
EvaluatedAll(line, fast, slow, exclude) ==
    IF LineLen(line) <= ShortLineLimit THEN << >>
    ELSE << "fast", "slow", "exclude" >>

\* the stages lines 246-250 evaluate on a line, in the order they do:
\* none on a short line, the strict one inside the if of the fast one, the
\* exclude one to the right of && after the strict match is not ""
Evaluated(line, fast, slow, exclude) ==
    IF LineLen(line) <= ShortLineLimit THEN << >>
    ELSE IF ~MatchString(fast, line) THEN << "fast" >>
    ELSE IF FindString(slow, line) = << >> THEN << "fast", "slow" >>
    ELSE << "fast", "slow", "exclude" >>

\* the callback invoked twice
CountCallTwice(calls, c) ==
    IF c \in DOMAIN calls THEN [calls EXCEPT ![c] = @ + 2] ELSE calls @@ (c :> 2)

\* one more invocation in the record of invocations
CountCall(calls, c) ==
    IF c \in DOMAIN calls THEN [calls EXCEPT ![c] = @ + 1] ELSE calls @@ (c :> 1)

\* the arguments of opts.OnMatch(path, lineNo, line, match)
MatchCall(path, lineNo, line, match) ==
    [path |-> path, lineNo |-> lineNo, line |-> line, match |-> match]

\* one iteration of for scanner.Scan() {...} up to mu.Lock()
Scan(w) ==
    /\ ~exited
    /\ workers[w].pc = "scan"
    /\ LET me == workers[w]
           r == ScanNext(Lookup(me.path), me.lineNo)
       IN  IF ~r.ok
           THEN /\ workers' = [workers EXCEPT ![w].pc = "close",
                                              ![w].scanErr = r.err]
                /\ UNCHANGED matchCalls
           ELSE IF Recorded(r.line, opts.FastPatterns, opts.SlowPatterns,
                            opts.ExcludePatterns)
           THEN /\ workers' = [workers EXCEPT
                                 ![w].lineNo = me.lineNo + 1,
                                 ![w].evals = Evaluated(r.line, opts.FastPatterns,
                                                  opts.SlowPatterns,
                                                  opts.ExcludePatterns),
                                 ![w].match = FindString(opts.SlowPatterns, r.line),
                                 ![w].pc = "lock"]
                /\ matchCalls' =
                      IF opts.OnMatch
                      THEN CountCall(matchCalls,
                               MatchCall(me.path, me.lineNo + 1, r.line,
                                         FindString(opts.SlowPatterns, r.line)))
                      ELSE matchCalls
           ELSE /\ workers' = [workers EXCEPT
                                 ![w].lineNo = me.lineNo + 1,
                                 ![w].evals = Evaluated(r.line, opts.FastPatterns,
                                                  opts.SlowPatterns,
                                                  opts.ExcludePatterns)]
                /\ UNCHANGED matchCalls
    /\ UNCHANGED << called, run, opts, numCPU, pc, walk, filenames, result, mu, semaphore,
                    wg, idx, progressCalls, exited >>

\* the critical section entered without waiting for the mutex
LockNoWait(w) ==
    /\ ~exited
    /\ workers[w].pc = "lock"
    /\ mu' = w
    /\ workers' = [workers EXCEPT ![w].pc = "append"]
    /\ UNCHANGED << called, run, opts, numCPU, pc, walk, filenames, result, semaphore, wg,
                    idx, progressCalls, matchCalls, exited >>

\* mu.Lock()
Lock(w) ==
    /\ ~exited
    /\ workers[w].pc = "lock"
    /\ mu = 0
    /\ mu' = w
    /\ workers' = [workers EXCEPT ![w].pc = "append"]
    /\ UNCHANGED << called, run, opts, numCPU, pc, walk, filenames, result, semaphore, wg,
                    idx, progressCalls, matchCalls, exited >>

\* the Match numbering the lines from 0
NewMatchZeroBased(path, lineNo, line, match) ==
    [File |-> path, Line |-> lineNo - 1, LineSnippet |-> TrimSpace(line),
     MatchText |-> match]

\* the Match built at lines 255-260
NewMatch(path, lineNo, line, match) ==
    [File |-> path, Line |-> lineNo, LineSnippet |-> TrimSpace(line),
     MatchText |-> match]

\* the Match put in front of the list
AppendMatchInFront(w) ==
    /\ ~exited
    /\ workers[w].pc = "append"
    /\ LET me == workers[w]
       IN  result' = [result EXCEPT !.Matches =
                         << NewMatch(me.path, me.lineNo,
                                     Lookup(me.path).content[me.lineNo],
                                     me.match) >> \o @]
    /\ workers' = [workers EXCEPT ![w].pc = "count"]
    /\ UNCHANGED << called, run, opts, numCPU, pc, walk, filenames, mu, semaphore, wg, idx,
                    progressCalls, matchCalls, exited >>

\* result.Matches = append(result.Matches, Match{...})
AppendMatch(w) ==
    /\ ~exited
    /\ workers[w].pc = "append"
    /\ LET me == workers[w]
       IN  result' = [result EXCEPT !.Matches =
                         Append(@, NewMatch(me.path, me.lineNo,
                                    Lookup(me.path).content[me.lineNo],
                                    me.match))]
    /\ workers' = [workers EXCEPT ![w].pc = "count"]
    /\ UNCHANGED << called, run, opts, numCPU, pc, walk, filenames, mu, semaphore, wg, idx,
                    progressCalls, matchCalls, exited >>

\* the count set to one instead of incremented
IncrementToOne(m, path) == (path :> 1) @@ m

\* m[path]++ on a Go map
Increment(m, path) ==
    IF path \in DOMAIN m THEN [m EXCEPT ![path] = @ + 1] ELSE m @@ (path :> 1)

\* result.MatchFiles[path]++
CountMatch(w) ==
    /\ ~exited
    /\ workers[w].pc = "count"
    /\ result' = [result EXCEPT !.MatchFiles = Increment(@, workers[w].path)]
    /\ workers' = [workers EXCEPT ![w].pc = "unlock"]
    /\ UNCHANGED << called, run, opts, numCPU, pc, walk, filenames, mu, semaphore, wg, idx,
                    progressCalls, matchCalls, exited >>

\* mu.Unlock(), and back to the head of the loop
Unlock(w) ==
    /\ ~exited
    /\ workers[w].pc = "unlock"
    /\ mu' = 0
    /\ workers' = [workers EXCEPT ![w].pc = "scan"]
    /\ UNCHANGED << called, run, opts, numCPU, pc, walk, filenames, result, semaphore, wg,
                    idx, progressCalls, matchCalls, exited >>

\* the slot not given back after the file is closed
CloseKeepingSlot(w) ==
    /\ ~exited
    /\ workers[w].pc = "close"
    /\ workers' = [workers EXCEPT
                      ![w].pc = "done",
                      ![w].panicking = Lookup(workers[w].path).closeErr]
    /\ UNCHANGED << called, run, opts, numCPU, pc, walk, filenames, result, mu, semaphore,
                    wg, idx, progressCalls, matchCalls, exited >>

\* deferred f.Close(), panicking when it fails
Close(w) ==
    /\ ~exited
    /\ workers[w].pc = "close"
    /\ workers' = [workers EXCEPT
                      ![w].pc = "release",
                      ![w].panicking = Lookup(workers[w].path).closeErr]
    /\ UNCHANGED << called, run, opts, numCPU, pc, walk, filenames, result, mu, semaphore,
                    wg, idx, progressCalls, matchCalls, exited >>

\* deferred <-semaphore
Release(w) ==
    /\ ~exited
    /\ workers[w].pc = "release"
    /\ semaphore' = semaphore - 1
    /\ workers' = [workers EXCEPT ![w].pc = "done"]
    /\ UNCHANGED << called, run, opts, numCPU, pc, walk, filenames, result, mu, wg, idx,
                    progressCalls, matchCalls, exited >>

\* the goroutine ending without wg.Done()
DoneNotCounted(w) ==
    /\ ~exited
    /\ workers[w].pc = "done"
    /\ workers' = [workers EXCEPT
                      ![w].pc = IF workers[w].panicking THEN "dying" ELSE "ended"]
    /\ UNCHANGED << called, run, opts, numCPU, pc, walk, filenames, result, mu, semaphore,
                    wg, idx, progressCalls, matchCalls, exited >>

\* deferred wg.Done(); the goroutine ends, or goes on panicking
Done(w) ==
    /\ ~exited
    /\ workers[w].pc = "done"
    /\ wg' = wg - 1
    /\ workers' = [workers EXCEPT
                      ![w].pc = IF workers[w].panicking THEN "dying" ELSE "ended"]
    /\ UNCHANGED << called, run, opts, numCPU, pc, walk, filenames, result, mu, semaphore,
                    idx, progressCalls, matchCalls, exited >>

\* the unrecovered panic ends the process, whatever the other goroutines do
Fatal(w) ==
    /\ ~exited
    /\ workers[w].pc = "dying"
    /\ exited' = TRUE
    /\ UNCHANGED << called, run, opts, numCPU, pc, walk, filenames, result, mu, semaphore,
                    wg, idx, workers, progressCalls, matchCalls >>

Next ==
    \/ WalkStep
    \/ WalkDone
    \/ LoopExit
    \/ Acquire
    \/ Notify
    \/ Spawn
    \/ Return
    \/ \E w \in 1..Len(workers) : Open(w)
    \/ \E w \in 1..Len(workers) : Scan(w)
    \/ \E w \in 1..Len(workers) : Lock(w)
    \/ \E w \in 1..Len(workers) : AppendMatch(w)
    \/ \E w \in 1..Len(workers) : CountMatch(w)
    \/ \E w \in 1..Len(workers) : Unlock(w)
    \/ \E w \in 1..Len(workers) : Close(w)
    \/ \E w \in 1..Len(workers) : Release(w)
    \/ \E w \in 1..Len(workers) : Done(w)
    \/ \E w \in 1..Len(workers) : Fatal(w)

Spec == Init /\ [][Next]_vars

\* every open, read and close of a file of the scan completes without
\* failure
NoFailure ==
    \A e \in root.entries :
        /\ ~e.openErr /\ ~e.closeErr /\ e.readErrAt = 0
        /\ \A k \in 1..Len(e.content) : LineLen(e.content[k]) < MaxScanTokenSize

\* the goroutines are scheduled: a step that stays possible is taken
SpecFair == Spec /\ WF_vars(Next)

(***************************************************************************)
(* Vocabulary of the properties.                                           *)
(***************************************************************************)
Workers == 1..Len(workers)

\* a scan in progress: the goroutine has started and still holds its slot
InProgress(w) ==
    workers[w].pc \in {"open", "scan", "lock", "append", "count", "unlock",
                       "close", "release"}

\* the goroutine has run its body and all its deferred calls
Finished(w) == workers[w].pc \in {"ended", "dying"}

MatchSet == {result.Matches[k] : k \in 1..Len(result.Matches)}

\* the line of the file a Match points to
LineOf(m) == Lookup(m.File).content[m.Line]

\* the worker has dealt with line k of its file, whatever it decided
Handled(w, k) ==
    /\ k <= workers[w].lineNo
    /\ k = workers[w].lineNo => workers[w].pc \notin {"lock", "append"}

\* the answers of the three stages on a line
Qualifies(line) ==
    /\ MatchString(opts.FastPatterns, line)
    /\ FindString(opts.SlowPatterns, line) # << >>
    /\ ~MatchString(opts.ExcludePatterns, line)

HasMatch(path, k) == \E m \in MatchSet : m.File = path /\ m.Line = k

\* number of Match records of a file
CountOf(path) ==
    Cardinality({k \in 1..Len(result.Matches) : result.Matches[k].File = path})

\* MatchFiles[path], 0 when the map has no such key
MapCount(path) ==
    IF path \in DOMAIN result.MatchFiles THEN result.MatchFiles[path] ELSE 0

RECURSIVE SumOver(_, _)
SumOver(f, S) ==
    IF S = {} THEN 0
    ELSE LET x == CHOOSE y \in S : TRUE IN f[x] + SumOver(f, S \ {x})

\* the names a scan excludes: the defaults and the caller's
ExcludedNames ==
    {defaultExcludeDirs[k] : k \in 1..Len(defaultExcludeDirs)}
        \cup {opts.ExcludeDirs[k] : k \in 1..Len(opts.ExcludeDirs)}

\* some directory on the way to the entry bears an excluded name
UnderExcludedDir(e) ==
    \E j \in 1..(Len(e.path) - 1) : e.path[j] \in ExcludedNames

\* number of lines the scanner delivers from an entry
Delivered(e) ==
    IF e.openErr THEN 0
    ELSE CHOOSE n \in 0..Len(e.content) :
            /\ \A k \in 1..n : ScanNext(e, k - 1).ok
            /\ ~ScanNext(e, n).ok

\* the set of Match records of a scan of the candidates, file after file
ExpectedMatches ==
    UNION { { NewMatch(path, k, Lookup(path).content[k],
                       FindString(opts.SlowPatterns, Lookup(path).content[k])) :
                k \in {j \in 1..Delivered(Lookup(path)) :
                          /\ LineLen(Lookup(path).content[j]) > ShortLineLimit
                          /\ Qualifies(Lookup(path).content[j])} } :
            path \in {result.Filenames[i] : i \in 1..Len(result.Filenames)} }

(***************************************************************************)
(* Properties.                                                             *)
(***************************************************************************)
\* C1: at every moment the number of scans in progress (goroutines started
\* that have not yet released their slot) is at most the capacity of the
\* semaphore, runtime.NumCPU().
C1_BoundedScans == Cardinality({w \in Workers : InProgress(w)}) <= numCPU

\* C1 witness: as many scans in progress as there are CPUs while the
\* dispatcher waits at the semaphore with files left.
C1_Witness ==
    /\ Cardinality({w \in Workers : InProgress(w)}) = numCPU
    /\ pc = "loop" /\ idx <= Len(filenames)
    /\ semaphore = numCPU

\* C2: the calls of OnCurrentFile are, in order, (Filenames[i], i, N) for
\* i = 0, 1, ..., and there are exactly N of them when the scan returns.
C2_ProgressInOrder ==
    opts.OnCurrentFile =>
        /\ \A k \in 1..Len(progressCalls) :
              /\ k <= Len(result.Filenames)
              /\ progressCalls[k] = [path |-> result.Filenames[k],
                                     index |-> k - 1,
                                     total |-> Len(result.Filenames)]
        /\ pc = "returned" => Len(progressCalls) = Len(result.Filenames)

\* C2 witness: all three callbacks made while the second worker has ended
\* before the first.
C2_Witness ==
    /\ opts.OnCurrentFile
    /\ Len(progressCalls) = 3 /\ Len(result.Filenames) = 3
    /\ Len(workers) >= 2
    /\ workers[2].pc = "ended" /\ InProgress(1)

C4_NoShortLine ==
    /\ \A m \in MatchSet : LineLen(LineOf(m)) > ShortLineLimit
    /\ \A c \in DOMAIN matchCalls : LineLen(c.line) > ShortLineLimit

\* C4 witness: a worker has read a line of length 8 that all three stages
\* accept, with the match callback set.
C4_Witness ==
    /\ opts.OnMatch
    /\ \E w \in Workers : \E k \in 1..workers[w].lineNo :
          /\ LineLen(Lookup(workers[w].path).content[k]) = ShortLineLimit
          /\ Qualifies(Lookup(workers[w].path).content[k])

\* C5: no Match is recorded for a line the exclude stage matches.
C5_NoVetoedLine ==
    \A m \in MatchSet : ~MatchString(opts.ExcludePatterns, LineOf(m))

\* C5 witness: a worker has dealt with a long line that fast and strict
\* accept and that exclude matches only because of its leading blanks.
C5_Witness ==
    \E w \in Workers : \E k \in 1..workers[w].lineNo :
        LET line == Lookup(workers[w].path).content[k]
        IN  /\ Handled(w, k)
            /\ LineLen(line) > ShortLineLimit
            /\ MatchString(opts.FastPatterns, line)
            /\ FindString(opts.SlowPatterns, line) # << >>
            /\ MatchString(opts.ExcludePatterns, line)
            /\ ~MatchString(opts.ExcludePatterns, TrimSpace(line))

\* C6: whenever the mutex is free, and when the scan has returned, each
\* file's count in MatchFiles is the number of its Match records, and the
\* counts add up to len(Matches).
C6_CountsAgree ==
    (mu = 0 \/ pc = "returned") =>
        /\ \A e \in root.entries :
              MapCount(JoinSlash(e.path)) = CountOf(JoinSlash(e.path))
        /\ \A path \in DOMAIN result.MatchFiles : MapCount(path) = CountOf(path)
        /\ SumOver(result.MatchFiles, DOMAIN result.MatchFiles)
              = Len(result.Matches)

\* C6 witness: the mutex is free, a file has two records, another file has
\* one and a worker is still scanning.
C6_Witness ==
    /\ mu = 0
    /\ \E path \in DOMAIN result.MatchFiles : result.MatchFiles[path] = 2
    /\ Cardinality(DOMAIN result.MatchFiles) >= 2
    /\ \E w \in Workers : workers[w].pc = "scan"

\* C7: when scanDirectory returns, every candidate has been dispatched,
\* every worker has run to its end, and no slot of the semaphore is held.
C7_ReturnAfterWorkers ==
    pc = "returned" =>
        /\ Len(workers) = Len(result.Filenames)
        /\ \A w \in Workers : Finished(w)
        /\ semaphore = 0
        /\ wg = 0
        /\ mu = 0

\* C7 witness: a scan of several files has returned with matches.
C7_Witness ==
    /\ pc = "returned"
    /\ Len(workers) >= 2
    /\ Len(result.Matches) >= 2

\* C8 as stated: scanDirectory does not return once opening, reading or
\* closing a candidate has failed.
C8_FailureAborts ==
    pc = "returned" =>
        \A w \in Workers : workers[w].scanErr # "read" /\ ~workers[w].panicking

\* C9: the set of Match records returned is the one the inputs determine,
\* without duplicates, whatever the interleaving was.
C9_SameSet ==
    pc = "returned" =>
        /\ MatchSet = ExpectedMatches
        /\ Cardinality(MatchSet) = Len(result.Matches)

\* C9 witness: a scan has returned its records in an order that is not the
\* order of dispatch.
C9_Witness ==
    /\ pc = "returned"
    /\ \E i, j \in 1..Len(result.Matches) : \E a, b \in 1..Len(result.Filenames) :
          /\ i < j /\ b < a
          /\ result.Matches[i].File = result.Filenames[a]
          /\ result.Matches[j].File = result.Filenames[b]

\* C10: a file below a directory bearing an excluded name, at any depth,
\* is never a candidate and never has a Match.
C10_ExcludedDirs ==
    \A e \in root.entries :
        UnderExcludedDir(e) =>
            /\ ~Contains(filenames, JoinSlash(e.path))
            /\ ~Contains(result.Filenames, JoinSlash(e.path))
            /\ \A m \in MatchSet : m.File # JoinSlash(e.path)

\* C10 witness: the walk is over and has collected candidates from a tree
\* that holds an accepted file two levels below an excluded directory and
\* one below a directory the caller excluded.
C10_Witness ==
    /\ pc = "returned"
    /\ result.Matches # << >>
    /\ \E e \in root.entries :
          /\ e.kind = "file" /\ Len(e.path) = 3
          /\ e.path[1] \in ExcludedNames
          /\ hasExtension(JoinSlash(e.path), opts.Extensions)
    /\ \E e \in root.entries :
          /\ e.kind = "file" /\ UnderExcludedDir(e)
          /\ \E j \in 1..(Len(e.path) - 1) : Contains(opts.ExcludeDirs, e.path[j])

\* the walk is over
WalkOver == pc \notin {"idle", "walk"}

\* the entry is a file the filters of the walk accept
Eligible(e) ==
    /\ ~IsDir(e)
    /\ hasExtension(JoinSlash(e.path), opts.Extensions)
    /\ \A j \in 1..Len(e.path) : e.path[j] \notin ExcludedNames

\* the root and every directory on the way to the entry can be read
Reachable(e) ==
    /\ ~root.rootErr
    /\ \A d \in root.entries :
          (IsDir(d) /\ Len(d.path) < Len(e.path)
               /\ SubSeq(e.path, 1, Len(d.path)) = d.path) => ~d.readDirErr

\* C11 as stated: every candidate is a regular file.
C11_OnlyRegularFiles ==
    \A k \in 1..Len(filenames) : Lookup(filenames[k]).kind = "file"

\* C20: once the walk is over, every eligible file that is not below a
\* directory that could not be read is a candidate, whatever errors the
\* walk function was handed, and the scan goes on.
C20_WalkSkipsErrors ==
    WalkOver =>
        \A e \in root.entries :
            (Eligible(e) /\ Reachable(e)) =>
                Contains(result.Filenames, JoinSlash(e.path))

\* C20 witness: the scan has returned with a candidate the walk reached
\* after it was handed the error of a directory it could not read.
C20_Witness ==
    /\ pc = "returned"
    /\ \E d, e \in root.entries :
          /\ IsDir(d) /\ d.readDirErr /\ Len(d.path) = 1
          /\ Eligible(e) /\ Reachable(e)
          /\ StrLess(d.path[1], e.path[1])
          /\ Contains(result.Filenames, JoinSlash(e.path))

\* the workers between mu.Lock() and mu.Unlock()
InSection == {w \in Workers : workers[w].pc \in {"append", "count", "unlock"}}

\* C14: at most one worker is between Lock and Unlock at any time, and
\* every step that changes result.Matches or result.MatchFiles is taken by
\* the one worker that holds mu, which keeps holding it over the step.
C14_WritesUnderMutex ==
    /\ [](Cardinality(InSection) <= 1)
    /\ [][(result'.Matches # result.Matches
             \/ result'.MatchFiles # result.MatchFiles) =>
            /\ mu \in Workers /\ mu' = mu
            /\ InSection = {mu}
            /\ workers[mu].pc \in {"append", "count"}
            /\ \A v \in Workers \ {mu} : workers'[v] = workers[v]]_vars

C14_Witness ==
    \E w, v \in Workers :
        /\ w # v
        /\ mu = w /\ workers[w].pc = "count"
        /\ workers[v].pc = "lock"
        /\ Len(result.Matches) >= 2

(***************************************************************************)
(* Functions called on their own.  The scan stays idle meanwhile.          *)
(***************************************************************************)
SeqsUpTo(S, n) == UNION {[1..k -> S] : k \in 0..n}

NoOpts ==
    [Directory |-> TreeMissing, Extensions |-> << >>, ExcludeDirs |-> << >>,
     ExcludePatterns |-> << >>, FastPatterns |-> << >>, SlowPatterns |-> << >>,
     OnCurrentFile |-> FALSE, OnMatch |-> FALSE]

IdleScan ==
    /\ opts = NoOpts
    /\ numCPU = 1
    /\ pc = "idle"
    /\ walk = << >>
    /\ filenames = << >>
    /\ result = [Matches |-> << >>, MatchFiles |-> << >>, Filenames |-> << >>]
    /\ mu = 0
    /\ semaphore = 0
    /\ wg = 0
    /\ idx = 1
    /\ workers = << >>
    /\ progressCalls = << >>
    /\ matchCalls = << >>
    /\ exited = FALSE

scanVars ==
    << opts, numCPU, pc, walk, filenames, result, mu, semaphore, wg, idx,
       workers, progressCalls, matchCalls, exited >>

\* the characters of the paths and extensions hasExtension is called on
ExtChars == {".", "y", "Y"}

InitExt ==
    /\ IdleScan
    /\ run = NoRun
    /\ \E path \in SeqsUpTo(ExtChars, MaxPathLen),
          extensions \in SeqsUpTo(SeqsUpTo(ExtChars, MaxExtLen), MaxExts) :
          called = [fn |-> "hasExtension", path |-> path,
                    extensions |-> extensions, done |-> FALSE, ret |-> FALSE]

\* ret := hasExtension(path, extensions)
CallHasExtension ==
    /\ called.fn = "hasExtension" /\ ~called.done
    /\ called' = [called EXCEPT !.done = TRUE,
                                !.ret = hasExtension(called.path, called.extensions)]
    /\ UNCHANGED << run, scanVars >>

NextExt == CallHasExtension

SpecExt == InitExt /\ [][NextExt]_vars

\* C12 as stated: hasExtension is true exactly when the path ends with one
\* of the extensions, letter case ignored on both sides.
C12_CaseInsensitive ==
    (called.fn = "hasExtension" /\ called.done) =>
        (called.ret <=>
            \E k \in 1..Len(called.extensions) :
                HasSuffix(ToLower(called.path), ToLower(called.extensions[k])))

(***************************************************************************)
(* Pattern sources and their compilation (fasthog.go 565-596).             *)
(*                                                                         *)
(* regexp.Compile is modelled for the expressions loadRegexes builds from  *)
(* the pattern lines of the model: an alternation of pieces separated by   *)
(* "|", a piece being an optionally parenthesised body, and a body being   *)
(* empty, one character, or one character followed by "+".  A backslash    *)
(* makes the punctuation character after it an ordinary character.        *)
(***************************************************************************)
Backslash == "\\"

Quote == "\""

Punctuation == {"(", ")", "|", "+", "#", Backslash, Quote}

\* shellReplacer.Replace: \\ becomes \ and \" becomes ", left to right
RECURSIVE shellReplacer(_)
shellReplacer(s) ==
    IF s = << >> THEN << >>
    ELSE IF Len(s) >= 2 /\ s[1] = Backslash /\ s[2] = Backslash
         THEN << Backslash >> \o shellReplacer(SubSeq(s, 3, Len(s)))
    ELSE IF Len(s) >= 2 /\ s[1] = Backslash /\ s[2] = Quote
         THEN << Quote >> \o shellReplacer(SubSeq(s, 3, Len(s)))
    ELSE << Head(s) >> \o shellReplacer(Tail(s))

\* the tokens of an expression
RECURSIVE Tokens(_)
Tokens(s) ==
    IF s = << >> THEN << >>
    ELSE IF s[1] = Backslash
         THEN IF Len(s) >= 2 /\ s[2] \in Punctuation
              THEN << [t |-> "char", c |-> s[2]] >> \o Tokens(SubSeq(s, 3, Len(s)))
              ELSE << [t |-> "bad", c |-> s[1]] >> \o Tokens(Tail(s))
    ELSE IF s[1] \in {"(", ")", "|", "+"}
         THEN << [t |-> s[1], c |-> s[1]] >> \o Tokens(Tail(s))
    ELSE << [t |-> "char", c |-> s[1]] >> \o Tokens(Tail(s))

\* the pieces between the "|" of a sequence of tokens
RECURSIVE Pieces(_)
Pieces(toks) ==
    IF \A k \in 1..Len(toks) : toks[k].t # "|" THEN << toks >>
    ELSE LET k == CHOOSE j \in 1..Len(toks) :
                      toks[j].t = "|" /\ \A h \in 1..(j - 1) : toks[h].t # "|"
         IN  << SubSeq(toks, 1, k - 1) >> \o Pieces(SubSeq(toks, k + 1, Len(toks)))

\* a piece without its parentheses, when it has both
Unwrap(piece) ==
    IF Len(piece) >= 2 /\ piece[1].t = "(" /\ piece[Len(piece)].t = ")"
    THEN SubSeq(piece, 2, Len(piece) - 1)
    ELSE piece

\* the body is one the model compiles
BodyOk(body) ==
    \/ body = << >>
    \/ Len(body) = 1 /\ body[1].t = "char"
    \/ Len(body) = 2 /\ body[1].t = "char" /\ body[2].t = "+"

Lit(c) == [kind |-> "lit", ch |-> c]

\* the alternative a body stands for
BodyAlt(body) ==
    IF body = << >> THEN EmptyExpr
    ELSE IF Len(body) = 1 THEN Lit(body[1].c)
    ELSE Plus(body[1].c)

\* regexp.Compile
Compile(s) ==
    LET pieces == Pieces(Tokens(s))
    IN  IF \A k \in 1..Len(pieces) : BodyOk(Unwrap(pieces[k]))
        THEN [ok |-> TRUE,
              re |-> [k \in 1..Len(pieces) |-> BodyAlt(Unwrap(pieces[k]))]]
        ELSE [ok |-> FALSE, re |-> << >>]

\* bytes.Split(b, "\n")
RECURSIVE SplitNewline(_)
SplitNewline(b) ==
    IF \A k \in 1..Len(b) : b[k] # "\n" THEN << b >>
    ELSE LET k == CHOOSE j \in 1..Len(b) :
                      b[j] = "\n" /\ \A h \in 1..(j - 1) : b[h] # "\n"
         IN  << SubSeq(b, 1, k - 1) >> \o SplitNewline(SubSeq(b, k + 1, Len(b)))

\* the line is neither empty nor a comment
Usable(line) == ~(Len(line) = 0 \/ line[1] = "#")

\* lines 579-587: the groups of the usable lines appended to regexes
RECURSIVE AppendGroups(_, _)
AppendGroups(regexes, lines) ==
    IF lines = << >> THEN regexes
    ELSE IF ~Usable(Head(lines)) THEN AppendGroups(regexes, Tail(lines))
    ELSE AppendGroups(regexes \o (IF Len(regexes) > 0 THEN << "|" >> ELSE << >>)
                          \o << "(" >> \o Head(lines) \o << ")" >>,
                      Tail(lines))

\* lines 574-588: the sources read one after the other; the first that
\* cannot be read ends the loop with its error
RECURSIVE ReadSources(_, _, _)
ReadSources(filesystem, paths, regexes) ==
    IF paths = << >> THEN [err |-> "nil", regexes |-> regexes]
    ELSE IF ~filesystem[Head(paths)].readable
         THEN [err |-> "read", regexes |-> << >>]
    ELSE ReadSources(filesystem, Tail(paths),
                     AppendGroups(regexes, SplitNewline(filesystem[Head(paths)].data)))

\* lines 574-588 with a source that cannot be read passed over
RECURSIVE ReadSourcesSkipping(_, _, _)
ReadSourcesSkipping(filesystem, paths, regexes) ==
    IF paths = << >> THEN [err |-> "nil", regexes |-> regexes]
    ELSE IF ~filesystem[Head(paths)].readable
         THEN ReadSourcesSkipping(filesystem, Tail(paths), regexes)
    ELSE ReadSourcesSkipping(filesystem, Tail(paths),
                     AppendGroups(regexes, SplitNewline(filesystem[Head(paths)].data)))

\* what loadRegexes returns: the matcher, unless nil, and the error
Loaded(re) == [nil |-> FALSE, re |-> re, err |-> "nil"]

Failed(err) == [nil |-> TRUE, re |-> << >>, err |-> err]

\* the expression compiled without the escapes normalized
loadRegexesRaw(filesystem, paths) ==
    LET r == ReadSources(filesystem, paths, << >>)
    IN  IF r.err # "nil" THEN Failed(r.err)
        ELSE IF Compile(r.regexes).ok
             THEN Loaded(Compile(r.regexes).re)
             ELSE Failed("compile")

\* the sources that can be read compiled without the others
loadRegexesBestEffort(filesystem, paths) ==
    LET r == ReadSourcesSkipping(filesystem, paths, << >>)
    IN  IF Compile(shellReplacer(r.regexes)).ok
        THEN Loaded(Compile(shellReplacer(r.regexes)).re)
        ELSE Failed("compile")

loadRegexes(filesystem, paths) ==
    LET r == ReadSources(filesystem, paths, << >>)
    IN  IF r.err # "nil" THEN Failed(r.err)
        ELSE IF Compile(shellReplacer(r.regexes)).ok
             THEN Loaded(Compile(shellReplacer(r.regexes)).re)
             ELSE Failed("compile")

(***************************************************************************)
(* loadRegexes called on every choice of pattern sources.                  *)
(***************************************************************************)
\* the lines of the pattern sources of the model: patterns, an empty file,
\* comments and empty lines alone and around a pattern, patterns with shell
\* escapes, a line whose parentheses do not balance, and a line that is no
\* expression, alone and after a pattern
PatternLines ==
    { << << "p", "+" >> >>,
      << << "x", "+" >> >>,
      << << >> >>,
      << << "#", "p", "+" >> >>,
      << << >>, << >> >>,
      << << "#", "p", "+" >>, << >>, << "p", "+" >>, << >> >>,
      << << Backslash, Backslash, "+" >> >>,
      << << Backslash, Quote, "+" >>, << "x", "+" >> >>,
      << << "p", ")", "|", "(", "x" >> >>,
      << << "+" >> >>,
      << << "p", "+" >>, << "+" >> >> }

RECURSIVE JoinNewline(_)
JoinNewline(lines) ==
    IF lines = << >> THEN << >>
    ELSE IF Len(lines) = 1 THEN Head(lines)
    ELSE Head(lines) \o << "\n" >> \o JoinNewline(Tail(lines))

Unreadable == [readable |-> FALSE, data |-> << >>]

\* the pattern sources: one that cannot be read, and one for each choice
\* of lines
PatternSources ==
    {Unreadable} \cup
    {[readable |-> TRUE, data |-> JoinNewline(lines)] : lines \in PatternLines}

\* the strings the matchers are tried on
SampleStrings ==
    { << >>, SecretLine, VetoedLine, PlainLine,
      << Run("+", 1) >>, << Run(Backslash, 2) >>, << Run(Quote, 1) >> }

InitLoad ==
    /\ IdleScan
    /\ run = NoRun
    /\ \E filesystem \in SeqsUpTo(PatternSources, MaxSources) :
          called = [fn |-> "loadRegexes", filesystem |-> filesystem,
                    paths |-> [k \in 1..Len(filesystem) |-> k],
                    done |-> FALSE, ret |-> Failed("nil")]

\* ret := loadRegexes(paths...)
CallLoadRegexes ==
    /\ called.fn = "loadRegexes" /\ ~called.done
    /\ called' = [called EXCEPT !.done = TRUE,
                                !.ret = loadRegexes(called.filesystem, called.paths)]
    /\ UNCHANGED << run, scanVars >>

NextLoad == CallLoadRegexes

SpecLoad == InitLoad /\ [][NextLoad]_vars

\* loadRegexes has returned
LoadDone == called.fn = "loadRegexes" /\ called.done

\* every source of the call can be read
AllReadable == \A k \in 1..Len(called.paths) : called.filesystem[called.paths[k]].readable

\* the usable lines of the sources of the call that can be read
UsableLines ==
    {line \in UNION {{SplitNewline(called.filesystem[called.paths[k]].data)[j] :
                        j \in 1..Len(SplitNewline(called.filesystem[called.paths[k]].data))} :
                     k \in {h \in 1..Len(called.paths) :
                              called.filesystem[called.paths[h]].readable}} :
        Usable(line)}

\* the line, its escapes normalized, is an expression by itself
LineValid(line) == Compile(shellReplacer(line)).ok

\* the line, its escapes normalized, is an expression that matches str
LineMatches(line, str) ==
    LineValid(line) /\ MatchString(Compile(shellReplacer(line)).re, str)

\* C13 as stated: from readable sources that hold no usable line,
\* loadRegexes returns a matcher, without error, that matches no string.
C13_EmptyMatchesNothing ==
    (LoadDone /\ Len(called.paths) >= 1 /\ AllReadable /\ UsableLines = {}) =>
        /\ ~called.ret.nil /\ called.ret.err = "nil"
        /\ \A str \in SampleStrings : ~MatchString(called.ret.re, str)

\* C18: when a source cannot be read, or the combined expression does not
\* compile, loadRegexes returns no matcher and an error; when it returns a
\* matcher, every source was read and every usable line that is an
\* expression contributes its matches.
C18_AllOrNothing ==
    LoadDone =>
        /\ called.ret.nil <=> called.ret.err # "nil"
        /\ ~AllReadable => called.ret.nil
        /\ (\E line \in UsableLines : line = << "+" >>) => called.ret.nil
        /\ ~called.ret.nil =>
              \A line \in UsableLines : \A str \in SampleStrings :
                  LineMatches(line, str) => MatchString(called.ret.re, str)

C18_Witness ==
    /\ LoadDone /\ called.ret.nil /\ called.ret.err = "read"
    /\ Len(called.paths) = 2
    /\ called.filesystem[1].readable /\ ~called.filesystem[2].readable
    /\ \E line \in UsableLines : LineValid(line)

\* C19 as stated: with at least one usable line, the matcher matches a
\* string exactly when one of the usable lines, normalized by itself,
\* matches it.
C19_Original ==
    (LoadDone /\ ~called.ret.nil /\ UsableLines # {}) =>
        \A str \in SampleStrings :
            MatchString(called.ret.re, str) <=>
                \E line \in UsableLines : LineMatches(line, str)

\* C19 amended: the same, when every usable line is an expression by itself
C19_Alternation ==
    (LoadDone /\ AllReadable /\ UsableLines # {}
        /\ \A line \in UsableLines : LineValid(line)) =>
        /\ ~called.ret.nil
        /\ \A str \in SampleStrings :
              MatchString(called.ret.re, str) <=>
                  \E line \in UsableLines : LineMatches(line, str)

C19_Witness ==
    /\ LoadDone /\ ~called.ret.nil
    /\ << Backslash, Backslash, "+" >> \in UsableLines
    /\ << "p", "+" >> \in UsableLines
    /\ << "#", "p", "+" >> \in
          {SplitNewline(called.filesystem[1].data)[j] :
              j \in 1..Len(SplitNewline(called.filesystem[1].data))}
    /\ \A line \in UsableLines : LineValid(line)
    /\ MatchString(called.ret.re, << Run("+", 1) >>)
    /\ ~MatchString(called.ret.re, << Run(Backslash, 2) >>)

(***************************************************************************)
(* The runners: runFasthog (text), runFasthogJSON (json) and runPasshog    *)
(* (passhog).  run holds the arguments and the position of the main        *)
(* goroutine; the scan the runner starts is the one of the variables       *)
(* above.  runPasshog walks and scans in its own goroutine with the same   *)
(* statements as scanDirectory on its locals filenames, matches and        *)
(* matchFiles, which filenames, result.Matches and result.MatchFiles       *)
(* stand for.                                                              *)
(***************************************************************************)
\* what os.Stat finds at the directory argument
StatKinds == {"dir", "file", "notExist"}

\* a directory that is anything but a regular file passed as valid
validateDirectoryExistsOnly(stat) ==
    IF stat = "notExist" THEN "directory does not exist" ELSE "nil"

\* validateDirectory, and lines 228-237 of runPasshog
validateDirectory(stat) ==
    IF stat = "notExist" THEN "directory does not exist"
    ELSE IF stat # "dir" THEN "path is not a directory"
    ELSE "nil"

\* the sources a stage can be given: one that loads, one that cannot be
\* read, one whose expression does not compile
StageSources(line) ==
    { << [readable |-> TRUE, data |-> line] >>,
      << Unreadable >>,
      << [readable |-> TRUE, data |-> << "p", "+", "\n", "+" >>] >> }

PatternFileSets ==
    [exclude : StageSources(<< "x", "+" >>),
     fast : StageSources(<< "p", "+" >>),
     slow : StageSources(<< "p", "+" >>)]

AllPaths(filesystem) == [k \in 1..Len(filesystem) |-> k]

\* every stage loaded whatever its sources, a failed one matching nothing
loadEffectivePatternsLenient(patternFiles) ==
    [err |-> "nil",
     loads |-> << "exclude", "fast", "slow" >>,
     exclude |-> loadRegexes(patternFiles.exclude, AllPaths(patternFiles.exclude)).re,
     fast |-> loadRegexes(patternFiles.fast, AllPaths(patternFiles.fast)).re,
     slow |-> loadRegexes(patternFiles.slow, AllPaths(patternFiles.slow)).re]

\* loadEffectivePatterns, and lines 240-251 of runPasshog: exclude, fast,
\* slow in this order, returning at the first that fails; loads lists the
\* stages loadRegexes was called for
loadEffectivePatterns(patternFiles) ==
    LET exclude == loadRegexes(patternFiles.exclude, AllPaths(patternFiles.exclude))
        fast == loadRegexes(patternFiles.fast, AllPaths(patternFiles.fast))
        slow == loadRegexes(patternFiles.slow, AllPaths(patternFiles.slow))
        failed(stage, loads) ==
            [err |-> stage, loads |-> loads,
             exclude |-> << >>, fast |-> << >>, slow |-> << >>]
    IN  IF exclude.nil THEN failed("exclude", << "exclude" >>)
        ELSE IF fast.nil THEN failed("fast", << "exclude", "fast" >>)
        ELSE IF slow.nil THEN failed("slow", << "exclude", "fast", "slow" >>)
        ELSE [err |-> "nil", loads |-> << "exclude", "fast", "slow" >>,
              exclude |-> exclude.re, fast |-> fast.re, slow |-> slow.re]

\* the summary of lines 791-799
ScanSummary(scanRes) ==
    [TotalMatches |-> Len(scanRes.Matches),
     TotalFilesScanned |-> Len(scanRes.Filenames),
     TotalFilesWithMatch |->
         Cardinality({file \in DOMAIN scanRes.MatchFiles :
                         scanRes.MatchFiles[file] > 0})]

\* the order with the smaller counts first
TopLessAscending(a, b) ==
    IF a.Count = b.Count THEN StrLess(a.File, b.File) ELSE a.Count < b.Count

\* the less function of sort.Slice at lines 805-810
TopLess(a, b) ==
    IF a.Count = b.Count THEN StrLess(a.File, b.File) ELSE a.Count > b.Count

\* the entries sorted by TopLess
RECURSIVE SortTop(_)
SortTop(entries) ==
    IF entries = {} THEN << >>
    ELSE LET first == CHOOSE a \in entries :
                          \A b \in entries \ {a} : TopLess(a, b)
         IN  << first >> \o SortTop(entries \ {first})

\* topFiles of lines 801-810: one entry for each key of MatchFiles, sorted
TopFiles(matchFiles) ==
    SortTop({[File |-> file, Count |-> matchFiles[file]] : file \in DOMAIN matchFiles})

\* the JSONResult of lines 812-820, without the fields that echo arguments
\* or hold times
JSONResult(scanRes) ==
    [Matches |-> scanRes.Matches,
     Summary |-> ScanSummary(scanRes),
     TopFiles |-> TopFiles(scanRes.MatchFiles)]

InitRun ==
    /\ opts = NoOpts
    /\ numCPU \in 1..MaxCPU
    /\ pc = "idle"
    /\ walk = << >>
    /\ filenames = << >>
    /\ result = [Matches |-> << >>, MatchFiles |-> << >>, Filenames |-> << >>]
    /\ mu = 0
    /\ semaphore = 0
    /\ wg = 0
    /\ idx = 1
    /\ workers = << >>
    /\ progressCalls = << >>
    /\ matchCalls = << >>
    /\ exited = FALSE
    /\ called = NoCall
    /\ \E mode \in {"text", "json", "passhog"}, stat \in StatKinds,
          directory \in {TreeLines, TreePanics, TreeCounts},
          patternFiles \in PatternFileSets :
          run = [mode |-> mode, stat |-> stat,
                 directory |-> IF stat = "dir" THEN directory ELSE TreeMissing,
                 patternFiles |-> patternFiles,
                 pc |-> "validate", err |-> "nil", loads |-> << >>,
                 patterns |-> [exclude |-> << >>, fast |-> << >>, slow |-> << >>],
                 ui |-> "none", gpc |-> "none", resultsCh |-> 0,
                 printed |-> FALSE,
                 json |-> JSONResult([Matches |-> << >>, MatchFiles |-> << >>,
                                      Filenames |-> << >>])]

\* the directory argument checked first
Validate ==
    /\ run.mode # "none" /\ run.pc = "validate"
    /\ run' = IF validateDirectory(run.stat) # "nil"
              THEN [run EXCEPT !.pc = "returned", !.err = validateDirectory(run.stat)]
              ELSE [run EXCEPT !.pc = "load"]
    /\ UNCHANGED << called, scanVars >>

\* the three matchers loaded
LoadPatterns ==
    /\ run.mode # "none" /\ run.pc = "load"
    /\ LET loaded == loadEffectivePatterns(run.patternFiles)
       IN  run' = IF loaded.err # "nil"
                  THEN [run EXCEPT !.pc = "returned", !.err = loaded.err,
                                   !.loads = loaded.loads]
                  ELSE [run EXCEPT !.pc = "start", !.loads = loaded.loads,
                                   !.patterns = [exclude |-> loaded.exclude,
                                                 fast |-> loaded.fast,
                                                 slow |-> loaded.slow]]
    /\ UNCHANGED << called, scanVars >>

\* the scan started: called by runFasthogJSON, in a goroutine by the text
\* runners, whose main goroutine goes on to p.Run()
StartScan ==
    /\ run.mode # "none" /\ run.pc = "start"
    /\ opts' = [Directory |-> run.directory,
                Extensions |-> << DotPy >>,
                ExcludeDirs |-> IF run.mode = "passhog" THEN defaultExcludeDirs
                                ELSE << >>,
                ExcludePatterns |-> run.patterns.exclude,
                FastPatterns |-> run.patterns.fast,
                SlowPatterns |-> run.patterns.slow,
                OnCurrentFile |-> run.mode # "json",
                OnMatch |-> run.mode # "json"]
    /\ pc' = "walk"
    /\ walk' = WalkDir(run.directory)
    /\ run' = IF run.mode = "json" THEN [run EXCEPT !.pc = "scan"]
              ELSE [run EXCEPT !.pc = "ui", !.ui = "running", !.gpc = "scan"]
    /\ UNCHANGED << called, numCPU, filenames, result, mu, semaphore, wg, idx,
                    workers, progressCalls, matchCalls, exited >>

\* runFasthogJSON after scanDirectory returned: the result written
Output ==
    /\ ~exited
    /\ run.mode = "json" /\ run.pc = "scan" /\ pc = "returned"
    /\ run' = [run EXCEPT !.pc = "returned", !.printed = TRUE,
                           !.json = JSONResult(result)]
    /\ UNCHANGED << called, scanVars >>

\* resultsCh <- scanRes in the goroutine of runFasthog
SendResult ==
    /\ ~exited
    /\ run.mode = "text" /\ run.gpc = "scan" /\ pc = "returned"
    /\ run' = [run EXCEPT !.gpc = "send", !.resultsCh = 1]
    /\ UNCHANGED << called, scanVars >>

\* p.Send(msgDone{}), on which model.Update returns tea.Quit
SendDone ==
    /\ ~exited
    /\ \/ run.mode = "text" /\ run.gpc = "send"
       \/ run.mode = "passhog" /\ run.gpc = "scan" /\ pc = "returned"
    /\ run' = [run EXCEPT !.gpc = "ended", !.ui = "quit"]
    /\ UNCHANGED << called, scanVars >>

\* the user presses q or ctrl+c, on which model.Update returns tea.Quit
KeyQuit ==
    /\ ~exited
    /\ run.mode # "none" /\ run.pc = "ui" /\ run.ui = "running"
    /\ run' = [run EXCEPT !.ui = "quit"]
    /\ UNCHANGED << called, scanVars >>

\* p.Run() returns; runFasthog goes on to receive from resultsCh
RunReturns ==
    /\ ~exited
    /\ run.mode # "none" /\ run.pc = "ui" /\ run.ui = "quit"
    /\ run' = [run EXCEPT !.pc = IF run.mode = "text" THEN "recv" ELSE "print"]
    /\ UNCHANGED << called, scanVars >>

\* scanRes := <-resultsCh
Recv ==
    /\ ~exited
    /\ run.mode = "text" /\ run.pc = "recv" /\ run.resultsCh = 1
    /\ run' = [run EXCEPT !.pc = "print", !.resultsCh = 0]
    /\ UNCHANGED << called, scanVars >>

\* the matches sorted and printed, the counts and the candidates read
PrintResults ==
    /\ ~exited
    /\ run.mode # "none" /\ run.pc = "print"
    /\ run' = [run EXCEPT !.pc = "returned", !.printed = TRUE]
    /\ UNCHANGED << called, scanVars >>

NextRun ==
    \/ Validate
    \/ LoadPatterns
    \/ StartScan
    \/ Output
    \/ SendResult
    \/ SendDone
    \/ KeyQuit
    \/ RunReturns
    \/ Recv
    \/ PrintResults
    \/ Next

SpecRun == InitRun /\ [][NextRun]_vars

\* the scan has not started: nothing walked, no file opened
ScanNotStarted ==
    /\ pc = "idle" /\ walk = << >> /\ filenames = << >> /\ workers = << >>
    /\ result.Matches = << >>

\* loadRegexes fails on the sources of the stage
StageFails(stage) ==
    loadRegexes(run.patternFiles[stage], AllPaths(run.patternFiles[stage])).nil

\* C15 as stated: the text runners read the matches, the counts and the
\* candidates for printing only once scanning has returned and every
\* worker has joined.
C15_PrintAfterJoin ==
    [][(run.mode \in {"text", "passhog"} /\ ~run.printed /\ run'.printed) =>
          /\ pc = "returned"
          /\ \A w \in Workers : workers[w].pc \in {"ended", "dying"}]_vars

\* C16: with a scan root that does not exist or is no directory, the
\* runner loads no pattern source, starts no scan and prints nothing, and
\* what it returns is an error.
C16_ValidatedFirst ==
    (run.mode # "none" /\ run.stat # "dir") =>
        /\ run.loads = << >>
        /\ ScanNotStarted
        /\ ~run.printed
        /\ run.pc \in {"validate", "returned"}
        /\ run.pc = "returned" => run.err # "nil"

C16_Witness ==
    /\ run.mode = "passhog" /\ run.stat = "file"
    /\ run.pc = "returned" /\ run.err = "path is not a directory"
    /\ ~StageFails("exclude") /\ ~StageFails("fast") /\ ~StageFails("slow")

\* C17: when one of the three stages fails to load, the runner starts no
\* scan and prints nothing, and what it returns is an error; a scan that
\* has started has all three matchers loaded.
C17_PipelineComplete ==
    /\ (run.mode # "none" /\ \E stage \in {"exclude", "fast", "slow"} : StageFails(stage)) =>
          /\ ScanNotStarted
          /\ ~run.printed
          /\ run.pc \in {"validate", "load", "returned"}
          /\ run.pc = "returned" => run.err # "nil"
    /\ (run.mode # "none" /\ pc # "idle") =>
          /\ run.loads = << "exclude", "fast", "slow" >>
          /\ \A stage \in {"exclude", "fast", "slow"} : ~StageFails(stage)

C17_Witness ==
    /\ run.mode = "text" /\ run.stat = "dir"
    /\ ~StageFails("exclude") /\ ~StageFails("fast") /\ StageFails("slow")
    /\ run.patternFiles.slow[1].readable
    /\ run.pc = "returned" /\ run.err = "slow"
    /\ run.loads = << "exclude", "fast", "slow" >>

(***************************************************************************)
(* The order of the stages, the phases of a scan, the callbacks and the    *)
(* Match records.                                                          *)
(***************************************************************************)
\* the line the worker read last
LastLine(w) == Lookup(workers[w].path).content[workers[w].lineNo]

\* C21: on the line a worker read last, the stages evaluated are the first
\* ones of fast, strict, exclude in this order; the strict one only when
\* the fast one matched, the exclude one only when the strict one returned
\* a non-empty substring, and none on a line of length <= 8.
C21_ShortCircuit ==
    \A w \in Workers :
        IF workers[w].lineNo = 0 THEN workers[w].evals = << >>
        ELSE /\ workers[w].evals =
                   SubSeq(<< "fast", "slow", "exclude" >>, 1, Len(workers[w].evals))
             /\ LineLen(LastLine(w)) <= ShortLineLimit => workers[w].evals = << >>
             /\ Len(workers[w].evals) >= 2 =>
                   MatchString(opts.FastPatterns, LastLine(w))
             /\ Len(workers[w].evals) >= 3 =>
                   FindString(opts.SlowPatterns, LastLine(w)) # << >>

C21_Witness ==
    \E w, v \in Workers :
        /\ workers[w].lineNo >= 1 /\ workers[w].evals = << "fast", "slow" >>
        /\ workers[v].lineNo >= 1 /\ workers[v].evals = << "fast" >>

\* C22: while the walk runs no worker exists and no progress callback has
\* fired; once it is over every entry has been handed to the walk function
\* and the candidate list does not change any more.
C22_WalkBeforeDispatch ==
    /\ [](pc = "walk" => workers = << >> /\ progressCalls = << >> /\ idx = 1)
    /\ [](pc \notin {"idle", "walk"} => walk = << >> /\ result.Filenames = filenames)
    /\ [][pc # "walk" => filenames' = filenames]_vars

C22_Witness ==
    /\ pc = "go" /\ idx = 1
    /\ Len(filenames) >= 2
    /\ Len(progressCalls) = 1
    /\ \E e \in root.entries : IsDir(e)

\* the invocation of OnMatch that goes with a Match record
CallOf(m) == MatchCall(m.File, m.Line, LineOf(m), m.MatchText)

\* C23: without OnMatch nothing is invoked; with it, every Match recorded
\* has had its invocation, no invocation happened twice, and once
\* scanDirectory has returned every invocation has its Match, so that the
\* invocations are as many as the Match records.
C23_OnMatchPerMatch ==
    /\ ~opts.OnMatch => DOMAIN matchCalls = {}
    /\ opts.OnMatch => \A m \in MatchSet : CallOf(m) \in DOMAIN matchCalls
    /\ \A c \in DOMAIN matchCalls : matchCalls[c] = 1
    /\ (pc = "returned" /\ opts.OnMatch) =>
          /\ DOMAIN matchCalls = {CallOf(m) : m \in MatchSet}
          /\ SumOver(matchCalls, DOMAIN matchCalls) = Len(result.Matches)

C23_Witness ==
    /\ pc = "returned" /\ opts.OnMatch
    /\ Len(result.Matches) >= 2
    /\ SumOver(matchCalls, DOMAIN matchCalls) = 2
    /\ \E path \in {filenames[k] : k \in 1..Len(filenames)} :
          \E k \in 1..Delivered(Lookup(path)) : ~HasMatch(path, k)

\* the text is one run of characters found in the line
SubstringOf(text, line) ==
    /\ Len(text) = 1
    /\ \E k \in 1..Len(line) : line[k].ch = text[1].ch /\ text[1].n <= line[k].n

\* C24: a Match names a candidate, a line of it counted from 1 that the
\* stages accept, that line trimmed, and the non-empty substring the strict
\* matcher returns on that line.
C24_MatchFields ==
    \A m \in MatchSet :
        /\ Contains(filenames, m.File)
        /\ m.Line \in 1..Len(Lookup(m.File).content)
        /\ Recorded(LineOf(m), opts.FastPatterns, opts.SlowPatterns,
                    opts.ExcludePatterns)
        /\ m.LineSnippet = TrimSpace(LineOf(m))
        /\ m.MatchText = FindString(opts.SlowPatterns, LineOf(m))
        /\ m.MatchText # << >>
        /\ SubstringOf(m.MatchText, LineOf(m))

C24_Witness ==
    /\ \E m \in MatchSet : m.Line = 2 /\ m.LineSnippet # LineOf(m)
    /\ \E m \in MatchSet : m.Line = 1 /\ m.MatchText = LineOf(m)

\* C25 as stated: the LineSnippet of every Match is longer than 8.
C25_LongSnippet ==
    \A m \in MatchSet : LineLen(m.LineSnippet) > ShortLineLimit

(***************************************************************************)
(* mergeExcludeDirs called on every list of extra names, and its caller    *)
(* writing into the list it got back.                                      *)
(***************************************************************************)
\* the names the extra lists are made of: two defaults and two others
ExtraNames == {DotGit, defaultExcludeDirs[4], SrcDir, LibDir}

InitMerge ==
    /\ IdleScan
    /\ run = NoRun
    /\ \E extra \in SeqsUpTo(ExtraNames, MaxExtra) :
          called = [fn |-> "mergeExcludeDirs", extra |-> extra, done |-> FALSE,
                    ret |-> << >>, array |-> "none",
                    defaults |-> defaultExcludeDirs, written |-> FALSE]

\* ret := mergeExcludeDirs(extra)
CallMergeExcludeDirs ==
    /\ called.fn = "mergeExcludeDirs" /\ ~called.done
    /\ called' = [called EXCEPT !.done = TRUE,
                                !.ret = mergeExcludeDirs(called.extra),
                                !.array = MergedArray(called.extra)]
    /\ UNCHANGED << run, scanVars >>

\* the caller overwrites the first entry of the list it got back, which
\* changes defaultExcludeDirs when the two share their array
CallerWrites ==
    /\ called.fn = "mergeExcludeDirs" /\ called.done /\ ~called.written
    /\ called' = [called EXCEPT
                     !.written = TRUE,
                     !.ret[1] = XDir,
                     !.defaults[1] = IF called.array = "defaultExcludeDirs"
                                     THEN XDir ELSE @]
    /\ UNCHANGED << run, scanVars >>

NextMerge == CallMergeExcludeDirs \/ CallerWrites

SpecMerge == InitMerge /\ [][NextMerge]_vars

SeqSet(seq) == {seq[k] : k \in 1..Len(seq)}

\* the positions of extra holding a name that is no default and that no
\* earlier position holds
NewAt(extra) ==
    {k \in 1..Len(extra) :
        /\ extra[k] \notin SeqSet(defaultExcludeDirs)
        /\ \A j \in 1..(k - 1) : extra[j] # extra[k]}

\* C26: the list returned starts with the defaults in their order, goes on
\* with the new names of extra in the order of their first occurrence,
\* holds no name twice and every name of extra; it has its own array, so
\* that defaultExcludeDirs stays what it was whatever the caller does with
\* the list.
C26_MergeExcludeDirs ==
    (called.fn = "mergeExcludeDirs" /\ called.done) =>
        /\ called.defaults = defaultExcludeDirs
        /\ called.array # "defaultExcludeDirs"
        /\ ~called.written =>
              /\ SubSeq(called.ret, 1, Len(defaultExcludeDirs)) = defaultExcludeDirs
              /\ Len(called.ret) =
                    Len(defaultExcludeDirs) + Cardinality(NewAt(called.extra))
              /\ \A k \in NewAt(called.extra) :
                    called.ret[Len(defaultExcludeDirs)
                                 + Cardinality({j \in NewAt(called.extra) : j <= k})]
                        = called.extra[k]
              /\ \A i, j \in 1..Len(called.ret) :
                    called.ret[i] = called.ret[j] => i = j
              /\ SeqSet(called.extra) \subseteq SeqSet(called.ret)
              /\ called.extra = << >> => called.ret = defaultExcludeDirs

C26_Witness ==
    /\ called.fn = "mergeExcludeDirs" /\ called.done /\ called.written
    /\ called.extra = << SrcDir, DotGit, SrcDir >>
    /\ Len(called.ret) = Len(defaultExcludeDirs) + 1
    /\ called.defaults[1] = DotGit

\* number of entries of the matches of the JSON result for a file
JSONCount(file) ==
    Cardinality({k \in 1..Len(run.json.Matches) : run.json.Matches[k].File = file})

JSONFiles == {run.json.Matches[k].File : k \in 1..Len(run.json.Matches)}

\* C27: in the JSON result written, the summary counts the matches, the
\* candidates and the distinct files of the matches, and top_files holds
\* each of these files once with the number of its matches, the larger
\* counts first and the names ascending among equal counts.
C27_JSONSummary ==
    (run.mode = "json" /\ run.printed) =>
        /\ run.json.Summary.TotalMatches = Len(run.json.Matches)
        /\ run.json.Summary.TotalFilesScanned =
              Cardinality({e \in root.entries : Eligible(e) /\ Reachable(e)})
        /\ run.json.Summary.TotalFilesWithMatch = Cardinality(JSONFiles)
        /\ Len(run.json.TopFiles) = Cardinality(JSONFiles)
        /\ \A file \in JSONFiles :
              \E k \in 1..Len(run.json.TopFiles) :
                  run.json.TopFiles[k] = [File |-> file, Count |-> JSONCount(file)]
        /\ \A i, j \in 1..Len(run.json.TopFiles) :
              i < j =>
                  \/ run.json.TopFiles[i].Count > run.json.TopFiles[j].Count
                  \/ /\ run.json.TopFiles[i].Count = run.json.TopFiles[j].Count
                     /\ StrLess(run.json.TopFiles[i].File, run.json.TopFiles[j].File)

C27_Witness ==
    /\ run.mode = "json" /\ run.printed
    /\ run.json.Summary =
          [TotalMatches |-> 4, TotalFilesScanned |-> 4, TotalFilesWithMatch |-> 3]
    /\ run.json.TopFiles =
          << [File |-> BPy, Count |-> 2], [File |-> APy, Count |-> 1],
             [File |-> DPy, Count |-> 1] >>

\* the dispatcher is at semaphore <- struct{}{} and the channel is full
Blocked == pc = "loop" /\ idx <= Len(filenames) /\ ~CanSend(semaphore)

\* C28: with the goroutines scheduled, a scan without failure that has
\* started returns, and so does one whose dispatcher is blocked on the full
\* semaphore: it gets its slot, dispatches the files left and its final
\* wait ends.
C28_Terminates ==
    (NoFailure /\ (pc = "walk" \/ Blocked)) ~> (pc = "returned")

C28_Witness ==
    /\ NoFailure /\ Blocked
    /\ Len(filenames) > numCPU
    /\ \E w \in Workers : workers[w].pc = "lock" /\ mu # 0

\* C29: two Match records of the same file stand in result.Matches in the
\* order of their lines, which differ.
C29_LinesInOrder ==
    \A i, j \in 1..Len(result.Matches) :
        (i < j /\ result.Matches[i].File = result.Matches[j].File) =>
            result.Matches[i].Line < result.Matches[j].Line

C29_Witness ==
    /\ Len(result.Matches) >= 3
    /\ result.Matches[1].File = result.Matches[3].File
    /\ result.Matches[2].File # result.Matches[1].File

(***************************************************************************)
(* The progress display (fasthog.go 619-666): the model of the UI, the     *)
(* messages model.Update handles and model.View.                           *)
(***************************************************************************)
DigitChars == << "0", "1", "2", "3", "4", "5", "6", "7", "8", "9" >>

\* fmt.Sprintf("%d", n) for n >= 0
RECURSIVE Sprintf(_)
Sprintf(n) ==
    IF n < 10 THEN << DigitChars[n + 1] >>
    ELSE Sprintf(n \div 10) \o << DigitChars[(n % 10) + 1] >>

Max(a, b) == IF a >= b THEN a ELSE b

\* strings.Repeat(" ", n)
Spaces(n) == [k \in 1..n |-> " "]

\* the current-file part of model.View: the path cut to space characters
\* and padded with spaces, or the panic of a slice out of range
View(m) ==
    LET matchCount == Sprintf(m.matches)
        space == m.Width
                   - Len(<< "M", "a", "t", "c", "h", "e", "s", ":", " " >> \o matchCount)
                   - 15
        start == Max(0, Len(m.currentFile) - space + 3)
        currentFile ==
            IF Len(m.currentFile) > space
            THEN << ".", ".", "." >>
                    \o SubSeq(m.currentFile, start + 1, Len(m.currentFile))
            ELSE m.currentFile
    IN  IF Len(m.currentFile) > space /\ start > Len(m.currentFile)
        THEN [panic |-> TRUE, currentFile |-> << >>]
        ELSE [panic |-> FALSE,
              currentFile |-> currentFile
                                \o Spaces(Max(0, space - Len(currentFile)))]

\* the paths msgCurrentFile carries
CurrentFiles == {[k \in 1..n |-> "a"] : n \in 0..MaxFileLen}

\* the model once the first tea.WindowSizeMsg has been handled
InitView ==
    /\ IdleScan
    /\ run = NoRun
    /\ \E width \in 0..MaxWidth :
          called = [fn |-> "model",
                    m |-> [currentFile |-> << >>, matches |-> 0, Width |-> width],
                    viewed |-> FALSE,
                    view |-> [panic |-> FALSE, currentFile |-> << >>]]

\* model.Update on tea.WindowSizeMsg
UpdateWindowSize ==
    /\ called.fn = "model" /\ ~called.view.panic
    /\ \E width \in 0..MaxWidth :
          called' = [called EXCEPT !.m.Width = width, !.viewed = FALSE]
    /\ UNCHANGED << run, scanVars >>

\* model.Update on msgCurrentFile
UpdateCurrentFile ==
    /\ called.fn = "model" /\ ~called.view.panic
    /\ \E path \in CurrentFiles :
          called' = [called EXCEPT !.m.currentFile = path, !.viewed = FALSE]
    /\ UNCHANGED << run, scanVars >>

\* model.Update on msgMatch
UpdateMatch ==
    /\ called.fn = "model" /\ ~called.view.panic
    /\ called.m.matches < MaxMatches
    /\ called' = [called EXCEPT !.m.matches = @ + 1, !.viewed = FALSE]
    /\ UNCHANGED << run, scanVars >>

\* model.View on the updated model
CallView ==
    /\ called.fn = "model" /\ ~called.viewed
    /\ called' = [called EXCEPT !.viewed = TRUE, !.view = View(called.m)]
    /\ UNCHANGED << run, scanVars >>

NextView == UpdateWindowSize \/ UpdateCurrentFile \/ UpdateMatch \/ CallView

SpecView == InitView /\ [][NextView]_vars

\* C30 as stated: whatever the window width and the current file, View
\* never slices the path out of range.
C30_NeverOutOfRange == called.fn = "model" => ~called.view.panic

====
